---- MODULE Spec2Model ----
(***************************************************************************)
(* Model of the item synchronisation engine of fresh-ts: the keyed         *)
(* (Fever) client's getItemsFromDates and getItemsFromIds, run against a   *)
(* transport whose answers are produced by a server that is either honest  *)
(* (a finite item store answering by the protocol's rules) or arbitrary.   *)
(*                                                                         *)
(* An Item is modelled by its numeric id, the only field the engine reads. *)
(* Code between two awaits runs atomically in JavaScript, so one action    *)
(* covers a handler from its resumption to its next suspension.            *)
(***************************************************************************)
EXTENDS Integers, Sequences, FiniteSets, TLC

(***************************************************************************)
(* Bounds of the model.  PageSize and BatchSize stand for the protocol's   *)
(* fixed page / chunk size (50 in fever-client.ts:297 and :201), scaled    *)
(* down so that full, short and multi-page cases are all enumerable.       *)
(***************************************************************************)
PageSize == 2
BatchSize == 2
MaxId == 3
MaxCalls == 3
MaxIdsLen == 3
MaxMs == 1
MaxLines == 3
ConcMaxId == 2
ConcDepth == 2

\* Date.getTime() / Date.parse() give milliseconds; ids are microseconds.
UsecPerMs == 1000

VARIABLES
  srvMode,         \* "honest" or "any": how the server answers
  srvItems,        \* ids of the items the honest server holds
  proto,           \* class of the client: "none", "fever", "greader"
  created,         \* create() has returned the client to its caller
  cfg,             \* host, username, password as resolved by create()
  apiEndpoint,     \* field apiEndpoint
  apiKey,          \* FeverClient field apiKey
  sid,             \* GreaderClient field sid
  userAuth,        \* GreaderClient field userAuth
  sessionToken,    \* GreaderClient field sessionToken
  authLog,         \* kinds of the authentication requests issued, in order
  op,              \* operation invoked: "none", "createFever",
                   \* "createGreader", "dates", "ids", "subs", "mark",
                   \* "unreads", "saved"
  pc,              \* "new" (no client yet), "probe" / "login" / "token"
                   \* (create suspended on that request), "idle", "await"
                   \* (suspended on a data call), "done", "failed"
  err,             \* error thrown to the caller, "none" if none
  result,          \* list returned to the caller
  sinceId,         \* normalized since
  untilId,         \* normalized until
  currentSinceId,  \* pagination cursor
  allItems,        \* accumulated items, in arrival order
  seenIds,         \* ids accepted so far
  ids,             \* argument of getItemsFromIds
  i,               \* chunk offset of getItemsFromIds (0-based, as in the code)
  req,             \* request in flight
  response,        \* response delivered by the transport, not yet consumed
  nCalls,          \* number of data calls issued (saturates at MaxCalls)
  calls,           \* locals of the item operations running concurrently on
                   \* one client, per invocation
  http,            \* one HttpService.request / request call: its position,
                   \* the fetch response and the outcome
  markArg,         \* arguments of setMark
  legacy           \* a client of the earlier classes FreshRSSAPI / APICore:
                   \* its construction, its probe and one data call

vars == <<srvMode, srvItems, op, pc, err, result, sinceId, untilId,
          currentSinceId, allItems, seenIds, ids, i, req, response, nCalls,
          proto, created, cfg, apiEndpoint, apiKey, sid, userAuth,
          sessionToken, authLog, calls, http, markArg, legacy>>

\* The client's construction state and credential.
authVars == <<proto, created, cfg, apiEndpoint, apiKey, sid, userAuth,
              sessionToken, authLog>>

\* The locals of the item operations.
itemVars == <<sinceId, untilId, currentSinceId, allItems, seenIds, ids, i>>

\* The concurrent invocations, the transport call looked at on its own and
\* the arguments of setMark.
sideVars == <<calls, http, markArg, legacy>>

Ids == 1..MaxId

NoReq == [kind |-> "none"]
NoResp == [kind |-> "none"]
TransportError == [kind |-> "error"]

Page(items) == [kind |-> "page", items |-> items]

\* A JSON object that signals invalid authentication: auth is 0 and no
\* other field of the result is present.
Denied == [kind |-> "denied"]

\* response?.items ?? []
Items(resp) == IF resp.kind = "page" THEN resp.items ELSE <<>>

\* Sequences over S of length at most n.
SeqsUpTo(S, n) == UNION {[1..k -> S] : k \in 0..n}

Range(s) == {s[k] : k \in DOMAIN s}

NoDup(s) == \A a, b \in DOMAIN s : a # b => s[a] # s[b]

\* All orderings of the set S.
Perms(S) == {s \in [1..Cardinality(S) -> S] : Range(s) = S}

Min(a, b) == IF a < b THEN a ELSE b

----------------------------------------------------------------------------
(* Date inputs (type DateInput = string | number | Date | null).           *)

Null == [kind |-> "null"]
Num(n) == [kind |-> "number", v |-> n]
DateOf(ms) == [kind |-> "date", v |-> ms]
\* A string is represented by what Date.parse / Date.UTC make of it:
\* a millisecond timestamp, or NaN (BadStr) for an unparsable string.
Str(ms) == [kind |-> "string", isNaN |-> FALSE, v |-> ms]
BadStr == [kind |-> "string", isNaN |-> TRUE, v |-> 0]

SinceInputs ==
  {Null} \cup {Num(n) : n \in 0..MaxId} \cup {DateOf(ms) : ms \in 0..MaxMs}
         \cup {BadStr, Str(0)}

UntilInputs ==
  {Null} \cup {Num(n) : n \in 0..MaxId} \cup {DateOf(ms) : ms \in 0..MaxMs}
         \cup {BadStr, Str(MaxMs)}

dateToMicroseconds(s) == s.v * UsecPerMs

\* Normalisation of since / until; until = null means Date.now() * 1000.
ToId(d, now) ==
  CASE d.kind = "null"   -> now * UsecPerMs
    [] d.kind = "string" -> dateToMicroseconds(d)
    [] d.kind = "date"   -> d.v * UsecPerMs
    [] d.kind = "number" -> d.v

----------------------------------------------------------------------------
(* Pure helpers of the engine.                                             *)

\* Faulty variants of Accepts: no de-duplication; no upper bound; an
\* exclusive upper bound.
AcceptsNoDedup(itemId, seen, until) == ~(itemId > until)
AcceptsNoUntil(itemId, seen, until) == ~(itemId \in seen)
AcceptsBelowUntil(itemId, seen, until) ==
  /\ ~(itemId \in seen)
  /\ ~(itemId >= until)

\* An item of a batch is accepted unless already seen or above until.
Accepts(itemId, seen, until) ==
  /\ ~(itemId \in seen)
  /\ ~(itemId > until)

\* Faulty variant of AddSeen: the id is not recorded.
AddSeenDropped(seen, itemId) == seen

\* seenIds.add(itemId)
AddSeen(seen, itemId) == seen \cup {itemId}

\* Faulty variant of Highest: the last accepted id, whatever its size.
HighestLast(itemId, highest) == itemId

\* if (itemId > highestId) highestId = itemId
Highest(itemId, highest) == IF itemId > highest THEN itemId ELSE highest

\* The for-loop over itemsBatch, from index k on.  acc carries the loop's
\* variables: newItems, the seen-id set and highestId.
RECURSIVE ScanBatch(_, _, _, _)
ScanBatch(batch, k, acc, until) ==
  IF k > Len(batch) THEN acc
  ELSE LET itemId == batch[k] IN
       IF Accepts(itemId, acc.seen, until)
       THEN ScanBatch(batch, k + 1,
                      [newItems |-> Append(acc.newItems, itemId),
                       seen     |-> AddSeen(acc.seen, itemId),
                       highest  |-> Highest(itemId, acc.highest)],
                      until)
       ELSE ScanBatch(batch, k + 1, acc, until)

\* Faulty variant of Earlier: equal bounds pass.
EarlierOrEqual(s, u) == s <= u

\* The precondition on the normalized bounds: sinceId < untilId.
Earlier(s, u) == s < u

\* Faulty variant of IsShortPage: a full page also ends the loop.
IsShortOrFullPage(batch) == Len(batch) <= PageSize

\* The pagination loop ends after a batch shorter than the page size.
IsShortPage(batch) == Len(batch) < PageSize

\* Array.prototype.sort with comparator a.id - b.id (stable).
RECURSIVE Insert(_, _)
Insert(x, s) ==
  IF s = <<>> THEN <<x>>
  ELSE IF x - Head(s) < 0 THEN <<x>> \o s
  ELSE <<Head(s)>> \o Insert(x, Tail(s))

\* Faulty variant of SortById: arrival order is kept.
SortByIdSkipped(s) == s

RECURSIVE SortById(_)
SortById(s) ==
  IF s = <<>> THEN <<>>
  ELSE Insert(s[Len(s)], SortById(SubSeq(s, 1, Len(s) - 1)))

\* Faulty variants of Slice: the chunk is one id short of the loop's stride;
\* every chunk is taken from the start of the list.
SliceFromStart(s, k) == SubSeq(s, 1, Min(BatchSize, Len(s)))
SliceShort(s, k) == SubSeq(s, k + 1, Min(k + BatchSize - 1, Len(s)))

\* ids.slice(k, k + 50)
Slice(s, k) == SubSeq(s, k + 1, Min(k + BatchSize, Len(s)))

\* Faulty variant of IsEmptyIds: the early return is never taken.
IsEmptyIdsNever(idsArg) == FALSE

\* The early return of getItemsFromIds: !ids || ids.length === 0.
IsEmptyIds(idsArg) == Len(idsArg) = 0

\* Faulty variant of CountMismatch: only surplus items are detected.
CountTooMany(items, totalRequested) == Len(items) > totalRequested

\* Faulty variant of CountMismatch: only missing items are detected.
CountTooFew(items, totalRequested) == Len(items) < totalRequested

\* The aggregate count check of getItemsFromIds.
CountMismatch(items, totalRequested) == Len(items) # totalRequested

\* The transport call log, saturating at MaxCalls.
CountCall(n) == IF n < MaxCalls THEN n + 1 ELSE n

SinceReq(cursor) == [kind |-> "since", since_id |-> cursor]
WithIdsReq(batch) == [kind |-> "with_ids", ids |-> batch]

----------------------------------------------------------------------------
(* The server behind the transport.                                        *)

\* The n smallest elements of S.
Smallest(S, n) == {x \in S : Cardinality({y \in S : y < x}) < n}

\* The honest server's answer to items&since_id=c: the up-to-PageSize
\* smallest-id items above c, in some order.
HonestSincePages(c) ==
  {Page(p) : p \in Perms(Smallest({x \in srvItems : x > c}, PageSize))}

\* The honest server's answer to items&with_ids=...: the requested items it
\* holds, each once, in some order.
HonestWithIdsPages(batch) ==
  {Page(p) : p \in Perms(srvItems \cap Range(batch))}

\* An arbitrary server: any list of items, or a transport failure.  A
\* response without an items field reads as an empty list (?? []).
AnyResponses(r) ==
  {TransportError, Denied} \cup
  {Page(p) : p \in SeqsUpTo(Ids, IF r.kind = "since" THEN PageSize
                                 ELSE Len(r.ids) + 1)}

----------------------------------------------------------------------------
(* Configuration and credentials.                                          *)

\* A field that was never assigned (undefined).
Unset == "undefined"

\* options.x and process.env.X: absent ("") or given.
Options == [host : {"", "h"}, username : {"", "u"}, password : {"", "p"}]
Env == [host : {"", "h"}, username : {"", "u"}, password : {"", "p"}]

\* a || b
OrElse(a, b) == IF a # "" THEN a ELSE b

Resolve(options, env) ==
  [host     |-> OrElse(options.host, env.host),
   username |-> OrElse(options.username, env.username),
   password |-> OrElse(options.password, env.password)]

NoCfg == [host |-> "", username |-> "", password |-> ""]

\* Faulty variant of Missing: no configuration check.
MissingNever(v) == FALSE

\* !host, !username, !password
Missing(v) == v = ""

\* Endpoint and key fields before the constructor has run.
NoEndpoint == <<>>
NoKey == <<>>

\* `${host}api/fever.php`, `${host}api/greader.php`
Endpoint(host, path) == <<host, path>>

\* md5(`${username}:${password}`), hex
Md5(username, password) == <<"md5", username, password>>

ProbeReq(key) == [kind |-> "probe", api_key |-> key]
LoginReq(username, password) ==
  [kind |-> "login", Email |-> username, Passwd |-> password]
TokenReq(auth) == [kind |-> "token", Authorization |-> auth]
\* Faulty variant of DataReq: the session cookie is left out.
DataReqNoCookie(token, auth, s) ==
  [kind |-> "data", T |-> token, Authorization |-> auth, Cookie |-> Unset]

DataReq(token, auth, s) ==
  [kind |-> "data", T |-> token, Authorization |-> auth, Cookie |-> s]

\* The body of the probe response, by its auth field.
ProbeResp(a) == [kind |-> "probe", auth |-> a]

\* Faulty variants of ProbeOk: every response passes; only an explicit
\* false fails.
ProbeOkAlways(resp) == TRUE
ProbeOkUnlessFalse(resp) == resp.auth # "false"

\* response?.auth is truthy
ProbeOk(resp) == resp.auth = "true"

\* The login response body: lines KEY=VALUE, and lines the pattern
\* /^(\w+)=(.*)$/ does not match (key "").
AuthKeys == {"SID", "LSID", "Auth"}
LineValues == {"", "x", "y"}
Line(k, v) == [key |-> k, value |-> v]
Garbage == Line("", "")
Lines == {Line(k, v) : k \in AuthKeys, v \in LineValues} \cup {Garbage}
LoginResp(lines) == [kind |-> "body", lines |-> lines]
TokenResp(v) == [kind |-> "token", value |-> v]

\* parseAuthResponse: every matching line assigns result[key], so the last
\* line of a key wins.  Keys never assigned read as undefined.
RECURSIVE ParseFrom(_, _, _)
ParseFrom(lines, k, acc) ==
  IF k > Len(lines) THEN acc
  ELSE IF lines[k].key # ""
       THEN ParseFrom(lines, k + 1,
                      [acc EXCEPT ![lines[k].key] = lines[k].value])
       ELSE ParseFrom(lines, k + 1, acc)

\* Faulty variant of parseAuthResponse: the pattern without its g flag, so
\* only the first line is examined.
parseAuthResponseFirstLine(lines) ==
  ParseFrom(SubSeq(lines, 1, Min(1, Len(lines))), 1,
            [k \in AuthKeys |-> Unset])

parseAuthResponse(lines) == ParseFrom(lines, 1, [k \in AuthKeys |-> Unset])

\* Faulty variants: a login response without Auth / without SID passes; an
\* empty token passes; only an absent token fails.
LoginAuthOkAlways(auth) == TRUE
LoginSidOkAlways(s) == TRUE
TokenOkAlways(token) == TRUE
TokenOkUnlessAbsent(token) == token # Unset

\* !auth, !sid, !token: undefined and the empty string are falsy.
LoginAuthOk(auth) == auth # Unset /\ auth # ""
LoginSidOk(s) == s # Unset /\ s # ""
TokenOk(token) == token # Unset /\ token # ""

\* What the transport can deliver for an authentication request.
AuthResponses(r) ==
  {TransportError} \cup
  (CASE r.kind = "probe" -> {ProbeResp(a) : a \in {"true", "false", "absent"}}
     [] r.kind = "login" -> {LoginResp(l) : l \in SeqsUpTo(Lines, MaxLines)}
     [] r.kind = "token" -> {TokenResp(v) : v \in {Unset, "", "t"}})

\* What the transport can deliver for a session-protocol data call.
DataResponses == {TransportError, Page(<<>>)}

\* No client exists yet.
NoClient ==
  /\ proto = "none"
  /\ created = FALSE
  /\ cfg = NoCfg
  /\ apiEndpoint = NoEndpoint
  /\ apiKey = NoKey
  /\ sid = Unset
  /\ userAuth = Unset
  /\ sessionToken = Unset
  /\ authLog = <<>>

\* A FeverClient as FeverClient.create returns it.
FeverCreated ==
  /\ proto = "fever"
  /\ created = TRUE
  /\ cfg = [host |-> "h", username |-> "u", password |-> "p"]
  /\ apiEndpoint = Endpoint("h", "api/fever.php")
  /\ apiKey = Md5("u", "p")
  /\ sid = Unset
  /\ userAuth = Unset
  /\ sessionToken = Unset
  /\ authLog = <<"probe">>

\* No invocation has started.
IdleCall ==
  [op |-> "none", pc |-> "idle", err |-> "none", result |-> <<>>,
   sinceId |-> 0, untilId |-> 0, currentSinceId |-> 0, allItems |-> <<>>,
   seenIds |-> {}, ids |-> <<>>, i |-> 0, req |-> NoReq,
   response |-> NoResp, hist |-> <<>>]

\* The names of the concurrent invocations.
Calls == {"a", "b"}

NoCalls == [c \in Calls |-> IdleCall]

\* No transport call is being looked at.
HttpIdle == [pc |-> "idle"]

\* setMark was not called.
NoMark == [action |-> "none", id |-> 0]

\* The earlier clients: FreshRSSAPI (api.ts) and APICore.
LegacyVersions == {"FreshRSSAPI", "APICore"}

\* const maxRetries = 1
MaxRetries == 1

\* One _call / request: where it is suspended, the failed attempts so far,
\* the transport requests issued, the answer to the request in flight and
\* the error it threw.
LegacyIdle ==
  [pc |-> "idle", attempt |-> 0, sent |-> 0, answer |-> "none",
   err |-> "none"]

LegacyCalls == {"probe", "data"}

\* No legacy client constructed yet.
NoLegacy ==
  [version |-> "none", made |-> FALSE, ctorErr |-> "none", cfg |-> NoCfg,
   absolute |-> FALSE, axios |-> FALSE,
   call |-> [c \in LegacyCalls |-> LegacyIdle]]

\* What a transport request can come to.  axios.post resolves with resp.data
\* (auth truthy: "ok"; auth falsy or absent, a body that is no JSON object
\* included: "denied") or rejects ("fail": network, timeout, status).
\* fetch resolves and is decoded ("ok", "denied"), resolves with !resp.ok
\* ("status"), resolves with a body json() rejects ("syntax"), or rejects
\* ("fail").
LegacyAnswers(at) ==
  IF at = "axios" THEN {"ok", "denied", "fail"}
  ELSE {"ok", "denied", "fail", "status", "syntax"}

\* The error thrown after the fetch answer a.
FetchError(a, version) ==
  CASE a = "denied" -> "AuthenticationError"
    [] a = "fail"   -> "TypeError"
    [] a = "status" -> (IF version = "FreshRSSAPI" THEN "Error:HTTP"
                        ELSE "APIError:HTTP")
    [] a = "syntax" -> "SyntaxError"

\* The try block up to its first await: axios.post when require('axios')
\* succeeds, the fetch fallback when it throws.  APICore.execute has the
\* fetch only, and throws before it when its endpoint is no URL.
TryRequest(me, l) ==
  IF l.version = "APICore" /\ ~l.absolute
  THEN [me EXCEPT !.pc = "thrown", !.err = "TypeError"]
  ELSE [me EXCEPT !.pc = IF l.version = "FreshRSSAPI" /\ l.axios
                         THEN "axios" ELSE "fetch",
                  !.sent = @ + 1,
                  !.answer = "none"]

\* Faulty variant of Caught: after the retries the error is rethrown as it
\* came.
CaughtRethrown(me, e) ==
  IF me.attempt + 1 <= MaxRetries
  THEN [me EXCEPT !.attempt = @ + 1, !.pc = "delay"]
  ELSE [me EXCEPT !.attempt = @ + 1, !.pc = "thrown", !.err = e]

\* catch (e) of _call: attempt += 1, then the delay before the retry, or
\* the APIError.
Caught(me, e) ==
  IF me.attempt + 1 <= MaxRetries
  THEN [me EXCEPT !.attempt = @ + 1, !.pc = "delay"]
  ELSE [me EXCEPT !.attempt = @ + 1, !.pc = "thrown",
                  !.err = IF e = "SyntaxError" THEN "APIError:Parse"
                          ELSE "APIError:Request"]

\* The call after the answer to its request: the return of the result,
\* the fetch fallback after anything axios threw (its own
\* AuthenticationError included), or the error of the fetch branch.
Resumed(me, l) ==
  IF me.answer = "ok" THEN [me EXCEPT !.pc = "returned"]
  ELSE IF me.pc = "axios"
  THEN [me EXCEPT !.pc = "fetch", !.sent = @ + 1, !.answer = "none"]
  ELSE IF l.version = "FreshRSSAPI"
  THEN Caught(me, FetchError(me.answer, l.version))
  ELSE [me EXCEPT !.pc = "thrown", !.err = FetchError(me.answer, l.version)]

\* _check_auth / authenticate after its call: if (!response?.auth) throw
\* new AuthenticationError(...).
CheckAuth(me) ==
  IF me.pc = "returned" /\ me.answer # "ok"
  THEN [me EXCEPT !.pc = "thrown", !.err = "AuthenticationError:CheckAuth"]
  ELSE me

Init ==
  /\ srvMode \in {"honest", "any"}
  /\ srvItems \in SUBSET Ids
  /\ (srvMode = "any" => srvItems = {})
  /\ FeverCreated
  /\ op = "none"
  /\ pc = "idle"
  /\ err = "none"
  /\ result = <<>>
  /\ sinceId = 0
  /\ untilId = 0
  /\ currentSinceId = 0
  /\ allItems = <<>>
  /\ seenIds = {}
  /\ ids = <<>>
  /\ i = 0
  /\ req = NoReq
  /\ response = NoResp
  /\ nCalls = 0

  /\ calls = NoCalls
  /\ http = HttpIdle
  /\ markArg = NoMark
  /\ legacy = NoLegacy
\* httpService.request(...) is issued and the caller suspends on it.
Send(r) ==
  /\ req' = r
  /\ response' = NoResp
  /\ nCalls' = CountCall(nCalls)
  /\ pc' = "await"

\* Faulty variant of Throw: the failure is swallowed and the operation
\* returns.
ThrowSwallowed(e) ==
  /\ pc' = "done"
  /\ err' = e

\* An exception leaves the operation.
Throw(e) ==
  /\ pc' = "failed"
  /\ err' = e

\* The operation returns r.
Return(r) ==
  /\ pc' = "done"
  /\ result' = r

ServerHonest ==
  /\ srvMode = "honest"
  /\ pc = "await"
  /\ req.kind \in {"since", "with_ids"}
  /\ response = NoResp
  /\ response' \in (IF req.kind = "since"
                    THEN HonestSincePages(req.since_id)
                    ELSE HonestWithIdsPages(req.ids))
  /\ UNCHANGED <<srvMode, srvItems, op, pc, err, result, sinceId, untilId,
                 currentSinceId, allItems, seenIds, ids, i, req, nCalls>>
  /\ UNCHANGED authVars

  /\ UNCHANGED sideVars
ServerAny ==
  /\ srvMode = "any"
  /\ pc = "await"
  /\ req.kind \in {"since", "with_ids"}
  /\ response = NoResp
  /\ response' \in AnyResponses(req)
  /\ UNCHANGED <<srvMode, srvItems, op, pc, err, result, sinceId, untilId,
                 currentSinceId, allItems, seenIds, ids, i, req, nCalls>>
  /\ UNCHANGED authVars

  /\ UNCHANGED sideVars
----------------------------------------------------------------------------
(* FeverClient.getItemsFromDates                                           *)

\* Entry: argument checks and normalisation, then the first data call.
getItemsFromDates(since, until, now) ==
  /\ proto = "fever"
  /\ pc = "idle"
  /\ op' = "dates"
  /\ IF since.kind = "null"
     THEN /\ Throw("Error:SinceRequired")
          /\ UNCHANGED <<result, sinceId, untilId, currentSinceId, allItems,
                         seenIds, req, response, nCalls>>
     ELSE IF since.kind = "string" /\ since.isNaN
     THEN /\ Throw("Error:InvalidDate")
          /\ UNCHANGED <<result, sinceId, untilId, currentSinceId, allItems,
                         seenIds, req, response, nCalls>>
     ELSE IF until.kind = "string" /\ until.isNaN
     THEN /\ Throw("Error:InvalidDate")
          /\ sinceId' = ToId(since, now)
          /\ UNCHANGED <<result, untilId, currentSinceId, allItems,
                         seenIds, req, response, nCalls>>
     ELSE /\ sinceId' = ToId(since, now)
          /\ untilId' = ToId(until, now)
          /\ IF ~Earlier(sinceId', untilId')
             THEN /\ Throw("Error:SinceNotEarlier")
                  /\ UNCHANGED <<result, currentSinceId, allItems, seenIds,
                                 req, response, nCalls>>
             ELSE /\ allItems' = <<>>
                  /\ seenIds' = {}
                  /\ currentSinceId' = sinceId'
                  /\ Send(SinceReq(currentSinceId'))
                  /\ UNCHANGED <<err, result>>
  /\ UNCHANGED <<srvMode, srvItems, ids, i>>
  /\ UNCHANGED authVars

  /\ UNCHANGED sideVars
\* Resumption after the awaited data call: one iteration of while (true),
\* up to the next data call, the return or the throw.
DatesResume ==
  /\ op = "dates"
  /\ pc = "await"
  /\ response # NoResp
  /\ IF response.kind = "error"
     THEN /\ Throw("Error:HTTP")
          /\ UNCHANGED <<result, currentSinceId, allItems, seenIds, req,
                         response, nCalls>>
     ELSE LET itemsBatch == Items(response) IN
       IF Len(itemsBatch) = 0
       THEN /\ Return(SortById(allItems))
            /\ UNCHANGED <<err, currentSinceId, allItems, seenIds, req,
                           response, nCalls>>
       ELSE LET acc == ScanBatch(itemsBatch, 1,
                                 [newItems |-> <<>>, seen |-> seenIds,
                                  highest |-> currentSinceId], untilId)
            IN /\ allItems' = allItems \o acc.newItems
               /\ seenIds' = acc.seen
               /\ IF IsShortPage(itemsBatch)
                  THEN /\ Return(SortById(allItems'))
                       /\ UNCHANGED <<err, currentSinceId, req, response,
                                      nCalls>>
                  ELSE /\ currentSinceId' = acc.highest
                       /\ IF Len(allItems') # Cardinality(seenIds')
                          THEN /\ Throw("Error:Duplicate")
                               /\ UNCHANGED <<result, req, response, nCalls>>
                          ELSE /\ Send(SinceReq(currentSinceId'))
                               /\ UNCHANGED <<err, result>>
  /\ UNCHANGED <<srvMode, srvItems, op, sinceId, untilId, ids, i>>
  /\ UNCHANGED authVars

  /\ UNCHANGED sideVars
----------------------------------------------------------------------------
(* FeverClient.getItemsFromIds                                             *)

getItemsFromIds(idsArg) ==
  /\ proto = "fever"
  /\ pc = "idle"
  /\ op' = "ids"
  /\ ids' = idsArg
  /\ IF IsEmptyIds(idsArg)
     THEN /\ Return(<<>>)
          /\ UNCHANGED <<err, allItems, i, req, response, nCalls>>
     ELSE /\ allItems' = <<>>
          /\ i' = 0
          /\ Send(WithIdsReq(Slice(idsArg, 0)))
          /\ UNCHANGED <<err, result>>
  /\ UNCHANGED <<srvMode, srvItems, sinceId, untilId, currentSinceId,
                 seenIds>>
  /\ UNCHANGED authVars

  /\ UNCHANGED sideVars
\* Resumption after a chunk's data call: push the items, then the next
\* chunk, or the count check, sort and return.
IdsResume ==
  /\ op \in {"ids", "unreads", "saved"}
  /\ req.kind = "with_ids"
  /\ pc = "await"
  /\ response # NoResp
  /\ IF response.kind = "error"
     THEN /\ Throw("Error:HTTP")
          /\ UNCHANGED <<result, allItems, i, req, response, nCalls>>
     ELSE /\ allItems' = allItems \o Items(response)
          /\ i' = i + BatchSize
          /\ IF i' < Len(ids)
             THEN /\ Send(WithIdsReq(Slice(ids, i')))
                  /\ UNCHANGED <<err, result>>
             ELSE IF CountMismatch(allItems', Len(ids))
             THEN /\ Throw("APIError:Count")
                  /\ UNCHANGED <<result, req, response, nCalls>>
             ELSE /\ Return(SortById(allItems'))
                  /\ UNCHANGED <<err, req, response, nCalls>>
  /\ UNCHANGED <<srvMode, srvItems, op, sinceId, untilId, currentSinceId,
                 seenIds, ids>>
  /\ UNCHANGED authVars

  /\ UNCHANGED sideVars
----------------------------------------------------------------------------
(* Client creation: FeverClient.create and GreaderClient.create.           *)

\* An authentication request is issued and create() suspends on it.
SendAuth(r, at) ==
  /\ req' = r
  /\ response' = NoResp
  /\ authLog' = Append(authLog, r.kind)
  /\ pc' = at

\* The transport delivers the response to an authentication request.
AuthServer ==
  /\ pc \in {"probe", "login", "token"}
  /\ response = NoResp
  /\ response' \in AuthResponses(req)
  /\ UNCHANGED <<srvMode, srvItems, op, pc, err, result, req, nCalls>>
  /\ UNCHANGED itemVars
  /\ UNCHANGED authVars

  /\ UNCHANGED sideVars
\* FeverClient.create up to the await of authenticate()'s probe.
CreateFever(options, env) ==
  /\ pc = "new"
  /\ op' = "createFever"
  /\ proto' = "fever"
  /\ cfg' = Resolve(options, env)
  /\ IF Missing(cfg'.host)
     THEN /\ Throw("Error:HostRequired")
          /\ UNCHANGED <<apiEndpoint, apiKey, req, response, authLog>>
     ELSE IF Missing(cfg'.username)
     THEN /\ Throw("Error:UsernameRequired")
          /\ UNCHANGED <<apiEndpoint, apiKey, req, response, authLog>>
     ELSE IF Missing(cfg'.password)
     THEN /\ Throw("Error:PasswordRequired")
          /\ UNCHANGED <<apiEndpoint, apiKey, req, response, authLog>>
     ELSE /\ apiEndpoint' = Endpoint(cfg'.host, "api/fever.php")
          /\ apiKey' = Md5(cfg'.username, cfg'.password)
          /\ SendAuth(ProbeReq(apiKey'), "probe")
          /\ UNCHANGED err
  /\ UNCHANGED <<srvMode, srvItems, result, nCalls, created, sid, userAuth,
                 sessionToken>>
  /\ UNCHANGED itemVars

  /\ UNCHANGED sideVars
\* FeverClient.authenticate after the probe's response, and the return of
\* the client by create.
FeverAuthResume ==
  /\ pc = "probe"
  /\ response # NoResp
  /\ IF response.kind = "error"
     THEN Throw("Error:HTTP") /\ UNCHANGED created
     ELSE IF ~ProbeOk(response)
     THEN Throw("AuthenticationError:Probe") /\ UNCHANGED created
     ELSE pc' = "idle" /\ created' = TRUE /\ UNCHANGED err
  /\ UNCHANGED <<srvMode, srvItems, op, result, req, response, nCalls,
                 proto, cfg, apiEndpoint, apiKey, sid, userAuth,
                 sessionToken, authLog>>
  /\ UNCHANGED itemVars

  /\ UNCHANGED sideVars
\* GreaderClient.create up to the await of authenticate()'s login request.
CreateGreader(options, env) ==
  /\ pc = "new"
  /\ op' = "createGreader"
  /\ proto' = "greader"
  /\ cfg' = Resolve(options, env)
  /\ IF Missing(cfg'.host)
     THEN /\ Throw("Error:HostRequired")
          /\ UNCHANGED <<apiEndpoint, req, response, authLog>>
     ELSE IF Missing(cfg'.username)
     THEN /\ Throw("Error:UsernameRequired")
          /\ UNCHANGED <<apiEndpoint, req, response, authLog>>
     ELSE IF Missing(cfg'.password)
     THEN /\ Throw("Error:PasswordRequired")
          /\ UNCHANGED <<apiEndpoint, req, response, authLog>>
     ELSE /\ apiEndpoint' = Endpoint(cfg'.host, "api/greader.php")
          /\ SendAuth(LoginReq(cfg'.username, cfg'.password), "login")
          /\ UNCHANGED err
  /\ UNCHANGED <<srvMode, srvItems, result, nCalls, created, apiKey, sid,
                 userAuth, sessionToken>>
  /\ UNCHANGED itemVars

  /\ UNCHANGED sideVars
\* GreaderClient.authenticate after the login response: parse, check Auth
\* and SID, store them, request the token.
GreaderLoginResume ==
  /\ pc = "login"
  /\ response # NoResp
  /\ IF response.kind = "error"
     THEN /\ Throw("Error:HTTP")
          /\ UNCHANGED <<userAuth, sid, req, response, authLog>>
     ELSE LET parsed == parseAuthResponse(response.lines) IN
       IF ~LoginAuthOk(parsed["Auth"])
       THEN /\ Throw("AuthenticationError:Login")
            /\ UNCHANGED <<userAuth, sid, req, response, authLog>>
       ELSE IF ~LoginSidOk(parsed["SID"])
       THEN /\ Throw("AuthenticationError:MissingSID")
            /\ UNCHANGED <<userAuth, sid, req, response, authLog>>
       ELSE /\ userAuth' = parsed["Auth"]
            /\ sid' = parsed["SID"]
            /\ SendAuth(TokenReq(userAuth'), "token")
            /\ UNCHANGED err
  /\ UNCHANGED <<srvMode, srvItems, op, result, nCalls, proto, created, cfg,
                 apiEndpoint, apiKey, sessionToken>>
  /\ UNCHANGED itemVars

  /\ UNCHANGED sideVars
\* GreaderClient.authenticate after the token response, and the return of
\* the client by create.
GreaderTokenResume ==
  /\ pc = "token"
  /\ response # NoResp
  /\ IF response.kind = "error"
     THEN Throw("Error:HTTP") /\ UNCHANGED <<sessionToken, created>>
     ELSE IF ~TokenOk(response.value)
     THEN /\ Throw("AuthenticationError:Token")
          /\ UNCHANGED <<sessionToken, created>>
     ELSE /\ sessionToken' = response.value
          /\ pc' = "idle"
          /\ created' = TRUE
          /\ UNCHANGED err
  /\ UNCHANGED <<srvMode, srvItems, op, result, req, response, nCalls,
                 proto, cfg, apiEndpoint, apiKey, sid, userAuth, authLog>>
  /\ UNCHANGED itemVars

  /\ UNCHANGED sideVars
----------------------------------------------------------------------------
(* A session-protocol data call: GreaderClient.getSubscriptions.           *)

getSubscriptions ==
  /\ proto = "greader"
  /\ pc = "idle"
  /\ op' = "subs"
  /\ Send(DataReq(sessionToken, userAuth, sid))
  /\ UNCHANGED <<srvMode, srvItems, err, result>>
  /\ UNCHANGED itemVars
  /\ UNCHANGED authVars

  /\ UNCHANGED sideVars
GreaderServer ==
  /\ pc = "await"
  /\ req.kind = "data"
  /\ response = NoResp
  /\ response' \in DataResponses
  /\ UNCHANGED <<srvMode, srvItems, op, pc, err, result, req, nCalls>>
  /\ UNCHANGED itemVars
  /\ UNCHANGED authVars

  /\ UNCHANGED sideVars
\* Faulty variant of SubsResume: a failed data call starts a new login.
SubsResumeRelogin ==
  /\ op = "subs"
  /\ pc = "await"
  /\ response # NoResp
  /\ IF response.kind = "error"
     THEN /\ SendAuth(LoginReq(cfg.username, cfg.password), "login")
          /\ UNCHANGED <<err, result>>
     ELSE /\ Return(response.items)
          /\ UNCHANGED <<err, req, response, authLog>>
  /\ UNCHANGED <<srvMode, srvItems, op, nCalls, proto, created, cfg,
                 apiEndpoint, apiKey, sid, userAuth, sessionToken>>
  /\ UNCHANGED itemVars

  /\ UNCHANGED sideVars
\* Faulty variant of SubsResume: a failed data call clears the session
\* token.
SubsResumeDropToken ==
  /\ op = "subs"
  /\ pc = "await"
  /\ response # NoResp
  /\ IF response.kind = "error"
     THEN Throw("Error:HTTP") /\ sessionToken' = Unset /\ UNCHANGED result
     ELSE Return(response.items) /\ UNCHANGED <<err, sessionToken>>
  /\ UNCHANGED <<srvMode, srvItems, op, req, response, nCalls, proto,
                 created, cfg, apiEndpoint, apiKey, sid, userAuth, authLog>>
  /\ UNCHANGED itemVars
  /\ UNCHANGED sideVars

\* getSubscriptions after its response: return it, or let the transport's
\* error through.
SubsResume ==
  /\ op = "subs"
  /\ pc = "await"
  /\ response # NoResp
  /\ IF response.kind = "error"
     THEN Throw("Error:HTTP") /\ UNCHANGED result
     ELSE Return(response.items) /\ UNCHANGED err
  /\ UNCHANGED <<srvMode, srvItems, op, req, response, nCalls>>
  /\ UNCHANGED itemVars
  /\ UNCHANGED authVars

  /\ UNCHANGED sideVars
----------------------------------------------------------------------------
(* FeverClient.setMark                                                     *)

MarkActions == {"read", "saved", "unsaved", "unread"}

MarkFields == {"read_item_ids", "saved_item_ids"}

MarkReq(action, id) == [kind |-> "mark", as |-> action, id |-> id]

\* What the transport can hand back for a 2xx answer: a JSON object with
\* some of the id-list fields, a JSON object signalling invalid
\* authentication, the JSON value null, or the text of a non-JSON body.
Obj(fields) == [kind |-> "object", fields |-> fields]
JsonNull == [kind |-> "null"]
Text == [kind |-> "text"]

MarkResponses ==
  {TransportError, Denied, JsonNull, Text} \cup
  {Obj(f) : f \in SUBSET MarkFields}

\* The right operand of `in` must be an object; anything else is a
\* TypeError.
IsObject(resp) == resp.kind \in {"object", "denied"}

\* Faulty variant of IsUnread: the action is never rejected.
IsUnreadNever(action) == FALSE

\* action === 'unread'
IsUnread(action) == action = "unread"

\* Entry: the capability check, then the data call.
setMark(action, id) ==
  /\ proto = "fever"
  /\ pc = "idle"
  /\ op' = "mark"
  /\ markArg' = [action |-> action, id |-> id]
  /\ IF IsUnread(action)
     THEN /\ Throw("Error:UnreadUnsupported")
          /\ UNCHANGED <<result, req, response, nCalls>>
     ELSE /\ Send(MarkReq(action, id))
          /\ UNCHANGED <<err, result>>
  /\ UNCHANGED <<srvMode, srvItems, calls, http, legacy>>
  /\ UNCHANGED itemVars
  /\ UNCHANGED authVars

MarkServer ==
  /\ pc = "await"
  /\ req.kind = "mark"
  /\ response = NoResp
  /\ response' \in MarkResponses
  /\ UNCHANGED <<srvMode, srvItems, op, pc, err, result, req, nCalls>>
  /\ UNCHANGED itemVars
  /\ UNCHANGED authVars
  /\ UNCHANGED sideVars

\* setMark after its response: the shape inspection, then the return of
\* the response as it came.
MarkResume ==
  /\ op = "mark"
  /\ pc = "await"
  /\ response # NoResp
  /\ IF response.kind = "error"
     THEN Throw("Error:HTTP") /\ UNCHANGED result
     ELSE IF markArg.action \in {"read", "saved", "unsaved"}
             /\ ~IsObject(response)
     THEN Throw("TypeError") /\ UNCHANGED result
     ELSE Return(response) /\ UNCHANGED err
  /\ UNCHANGED <<srvMode, srvItems, op, req, response, nCalls>>
  /\ UNCHANGED itemVars
  /\ UNCHANGED authVars
  /\ UNCHANGED sideVars

CallMark == \E action \in MarkActions, id \in Ids : setMark(action, id)

----------------------------------------------------------------------------
(* FeverClient.getUnreads and FeverClient.getSaved                         *)

\* The id-list call: the urlSearchParams name the list wanted.
ListReq(field) == [kind |-> "list", field |-> field]

\* A piece of the id string between two commas that is empty after trim().
Blank == 0

\* A JSON object carrying the id string, by its pieces between commas: an
\* id, or Blank.
IdList(tokens) == [kind |-> "idlist", tokens |-> tokens]

\* What the transport can deliver for an id-list call.  An object without
\* the field (the answer to a refused credential among them) reads as ''.
ListResponses ==
  {TransportError, Denied} \cup
  {IdList(t) : t \in SeqsUpTo(Ids \cup {Blank}, MaxIdsLen)}

\* String(response?.unread_item_ids ?? '').split(',')
IdsString(resp) == IF resp.kind = "idlist" THEN resp.tokens ELSE <<>>

\* Faulty variant of ParseIds: blank pieces are kept.
ParseIdsKeepBlanks(tokens) == tokens

\* .map((s) => s.trim()).filter(Boolean), then .map((s) => Number(s))
ParseIds(tokens) == SelectSeq(tokens, LAMBDA t : t # Blank)

\* Entry of getUnreads / getSaved: the id-list call.
GetListed(which, field) ==
  /\ proto = "fever"
  /\ pc = "idle"
  /\ op' = which
  /\ Send(ListReq(field))
  /\ UNCHANGED <<srvMode, srvItems, err, result>>
  /\ UNCHANGED itemVars
  /\ UNCHANGED authVars
  /\ UNCHANGED sideVars

getUnreads == GetListed("unreads", "unread_item_ids")

getSaved == GetListed("saved", "saved_item_ids")

ListServer ==
  /\ pc = "await"
  /\ req.kind = "list"
  /\ response = NoResp
  /\ response' \in ListResponses
  /\ UNCHANGED <<srvMode, srvItems, op, pc, err, result, req, nCalls>>
  /\ UNCHANGED itemVars
  /\ UNCHANGED authVars
  /\ UNCHANGED sideVars

\* After the id-list response: an empty list returns at once; otherwise
\* getItemsFromIds(ids) starts, up to its first chunk's call.
ListResume ==
  /\ op \in {"unreads", "saved"}
  /\ pc = "await"
  /\ req.kind = "list"
  /\ response # NoResp
  /\ IF response.kind = "error"
     THEN /\ Throw("Error:HTTP")
          /\ UNCHANGED <<result, allItems, ids, i, req, response, nCalls>>
     ELSE LET listed == ParseIds(IdsString(response)) IN
       IF Len(listed) = 0
       THEN /\ Return(<<>>)
            /\ UNCHANGED <<err, allItems, ids, i, req, response, nCalls>>
       ELSE /\ ids' = listed
            /\ IF IsEmptyIds(listed)
               THEN /\ Return(<<>>)
                    /\ UNCHANGED <<err, allItems, i, req, response, nCalls>>
               ELSE /\ allItems' = <<>>
                    /\ i' = 0
                    /\ Send(WithIdsReq(Slice(listed, 0)))
                    /\ UNCHANGED <<err, result>>
  /\ UNCHANGED <<srvMode, srvItems, op, sinceId, untilId, currentSinceId,
                 seenIds>>
  /\ UNCHANGED authVars
  /\ UNCHANGED sideVars

----------------------------------------------------------------------------
CallDates ==
  \E since \in SinceInputs, until \in UntilInputs, now \in 0..MaxMs :
    getItemsFromDates(since, until, now)

CallIds == \E idsArg \in SeqsUpTo(Ids, MaxIdsLen) : getItemsFromIds(idsArg)

Next ==
  \/ CallDates
  \/ CallIds
  \/ DatesResume
  \/ IdsResume
  \/ ServerHonest
  \/ ServerAny

Spec == Init /\ [][Next]_vars

----------------------------------------------------------------------------
(* The life of a client from its creation on.                              *)

InitNew ==
  /\ srvMode \in {"honest", "any"}
  /\ srvItems \in SUBSET Ids
  /\ (srvMode = "any" => srvItems = {})
  /\ NoClient
  /\ op = "none"
  /\ pc = "new"
  /\ err = "none"
  /\ result = <<>>
  /\ sinceId = 0
  /\ untilId = 0
  /\ currentSinceId = 0
  /\ allItems = <<>>
  /\ seenIds = {}
  /\ ids = <<>>
  /\ i = 0
  /\ req = NoReq
  /\ response = NoResp
  /\ nCalls = 0

  /\ calls = NoCalls
  /\ http = HttpIdle
  /\ markArg = NoMark
  /\ legacy = NoLegacy
CallCreateFever ==
  \E options \in Options, env \in Env : CreateFever(options, env)

CallCreateGreader ==
  \E options \in Options, env \in Env : CreateGreader(options, env)

NextAuth ==
  \/ CallCreateFever
  \/ CallCreateGreader
  \/ AuthServer
  \/ FeverAuthResume
  \/ GreaderLoginResume
  \/ GreaderTokenResume
  \/ getSubscriptions
  \/ GreaderServer
  \/ SubsResume
  \/ CallDates
  \/ CallIds
  \/ DatesResume
  \/ IdsResume
  \/ ServerHonest
  \/ ServerAny
  \/ CallMark
  \/ MarkServer
  \/ MarkResume
  \/ getUnreads
  \/ getSaved
  \/ ListServer
  \/ ListResume

AuthSpec == InitNew /\ [][NextAuth]_vars

----------------------------------------------------------------------------
(* The transport on its own: HttpService.request, and the function request *)
(* of http.ts that preceded it.                                            *)

HttpVersions == {"HttpService.request", "request"}

\* The media types a Content-Type header can name.  A header is modelled by
\* the set of the types it names, so that contentType.includes(t) is
\* membership; the empty set is the absent header ('').
MediaTypes ==
  {"application/json", "text/plain", "application/octet-stream", "image/png"}

\* What fetch resolves to: response.ok, the Content-Type header, and
\* whether the body is valid JSON (response.json() rejects otherwise).
FetchResponses ==
  [ok : BOOLEAN, contentType : SUBSET MediaTypes, validJson : BOOLEAN]

Includes(contentType, t) == t \in contentType

HttpThrown(e) == [pc |-> "thrown", err |-> e, decoded |-> "none"]
HttpReturned(d) == [pc |-> "returned", err |-> "none", decoded |-> d]

\* HttpService.request from the fetch response on.
DecodeHttpService(r) ==
  LET isJson == Includes(r.contentType, "application/json")
      isBlob == Includes(r.contentType, "application/octet-stream")
  IN IF ~r.ok THEN HttpThrown("HTTP")
     ELSE IF isJson
     THEN (IF r.validJson THEN HttpReturned("json")
           ELSE HttpThrown("ParseJSON"))
     ELSE IF isBlob THEN HttpReturned("blob")
     ELSE HttpReturned("text")

\* request of http.ts from the fetch response on.
DecodeRequest(r) ==
  LET isJson == Includes(r.contentType, "application/json")
      isText == Includes(r.contentType, "text/plain")
  IN IF ~r.ok THEN HttpThrown("HTTP")
     ELSE IF isJson
     THEN (IF r.validJson THEN HttpReturned("json")
           ELSE HttpThrown("ParseJSON"))
     ELSE IF isText THEN HttpReturned("text")
     ELSE HttpReturned("undefined")

HttpFrame ==
  /\ UNCHANGED <<srvMode, srvItems, op, pc, err, result, req, response,
                 nCalls, calls, markArg, legacy>>
  /\ UNCHANGED itemVars
  /\ UNCHANGED authVars

\* The call up to the await of fetch.
HttpRequest(version) ==
  /\ http.pc = "idle"
  /\ http' = [pc |-> "fetch", version |-> version]
  /\ HttpFrame

\* fetch resolves.
HttpFetch(r) ==
  /\ http.pc = "fetch"
  /\ http' = [pc |-> "fetched", version |-> http.version, resp |-> r]
  /\ HttpFrame

\* The call from the fetch response to its return or throw.
HttpDecode ==
  /\ http.pc = "fetched"
  /\ LET out == IF http.version = "HttpService.request"
                THEN DecodeHttpService(http.resp)
                ELSE DecodeRequest(http.resp)
     IN http' = [pc |-> out.pc, version |-> http.version,
                 resp |-> http.resp, err |-> out.err,
                 decoded |-> out.decoded]
  /\ HttpFrame

CallHttpRequest == \E version \in HttpVersions : HttpRequest(version)

CallHttpFetch == \E r \in FetchResponses : HttpFetch(r)

InitHttp == Init /\ srvMode = "any"

NextHttp ==
  \/ CallHttpRequest
  \/ CallHttpFetch
  \/ HttpDecode

HttpSpec == InitHttp /\ [][NextHttp]_vars

----------------------------------------------------------------------------
(* Two invocations of the item operations on one client, interleaved at    *)
(* their awaits.  Each invocation has its own locals, calls[c].            *)

ConcIds == 1..ConcMaxId

\* The pages the transport hands to the concurrent invocations.
ConcPages ==
  {Page(p) : p \in {t \in SeqsUpTo(ConcIds, PageSize) : NoDup(t)}}

\* An invocation gets ConcDepth answers of any kind; after them the
\* transport fails.
ConcResponses(me) ==
  IF Len(me.hist) >= ConcDepth THEN {TransportError}
  ELSE {TransportError} \cup ConcPages

\* The id lists given to getItemsFromIds: empty, one chunk, two chunks.
ConcIdsInputs ==
  {<<>>, <<1>>, [k \in 1..(BatchSize + 1) |-> 1 + (k % ConcMaxId)]}

\* httpService.request(...) in the invocation me.
SendIn(me, r) == [me EXCEPT !.req = r, !.response = NoResp, !.pc = "await"]

ThrowIn(me, e) == [me EXCEPT !.pc = "failed", !.err = e]

ReturnIn(me, r) == [me EXCEPT !.pc = "done", !.result = r]

\* getItemsFromDates(since, until) with numeric arguments, up to its first
\* await.
StartDates(since, until) ==
  LET me == [IdleCall EXCEPT !.op = "dates", !.sinceId = since,
                             !.untilId = until]
  IN IF ~Earlier(since, until)
     THEN ThrowIn(me, "Error:SinceNotEarlier")
     ELSE SendIn([me EXCEPT !.currentSinceId = since], SinceReq(since))

\* getItemsFromIds(idsArg) up to its first await.
StartIds(idsArg) ==
  LET me == [IdleCall EXCEPT !.op = "ids", !.ids = idsArg]
  IN IF IsEmptyIds(idsArg)
     THEN ReturnIn(me, <<>>)
     ELSE SendIn(me, WithIdsReq(Slice(idsArg, 0)))

\* One iteration of getItemsFromDates' loop in the invocation me, whose
\* seen-id set is seen.
StepDates(me, seen) ==
  IF me.response.kind = "error" THEN ThrowIn(me, "Error:HTTP")
  ELSE LET itemsBatch == Items(me.response) IN
    IF Len(itemsBatch) = 0 THEN ReturnIn(me, SortById(me.allItems))
    ELSE LET acc == ScanBatch(itemsBatch, 1,
                              [newItems |-> <<>>, seen |-> seen,
                               highest |-> me.currentSinceId], me.untilId)
             got == [me EXCEPT !.allItems = me.allItems \o acc.newItems,
                               !.seenIds = acc.seen]
         IN IF IsShortPage(itemsBatch)
            THEN ReturnIn(got, SortById(got.allItems))
            ELSE LET adv == [got EXCEPT !.currentSinceId = acc.highest]
                 IN IF Len(adv.allItems) # Cardinality(adv.seenIds)
                    THEN ThrowIn(adv, "Error:Duplicate")
                    ELSE SendIn(adv, SinceReq(adv.currentSinceId))

\* One iteration of getItemsFromIds' loop in the invocation me.
StepIds(me) ==
  IF me.response.kind = "error" THEN ThrowIn(me, "Error:HTTP")
  ELSE LET got == [me EXCEPT !.allItems = me.allItems \o Items(me.response),
                             !.i = me.i + BatchSize]
       IN IF got.i < Len(got.ids)
          THEN SendIn(got, WithIdsReq(Slice(got.ids, got.i)))
          ELSE IF CountMismatch(got.allItems, Len(got.ids))
          THEN ThrowIn(got, "APIError:Count")
          ELSE ReturnIn(got, SortById(got.allItems))

\* Faulty variant of SeenOf: the seen-id set is kept on the client and
\* shared by its invocations.
SeenOfClient(c) == UNION {calls[d].seenIds : d \in Calls}

\* The seen-id set of invocation c: a local of its call.
SeenOf(c) == calls[c].seenIds

ConcFrame ==
  /\ UNCHANGED <<srvMode, srvItems, op, pc, err, result, req, response,
                 nCalls, http, markArg, legacy>>
  /\ UNCHANGED itemVars
  /\ UNCHANGED authVars

ConcDates(c, since, until) ==
  /\ calls[c].op = "none"
  /\ calls' = [calls EXCEPT ![c] = StartDates(since, until)]
  /\ ConcFrame

ConcItemsIds(c, idsArg) ==
  /\ calls[c].op = "none"
  /\ calls' = [calls EXCEPT ![c] = StartIds(idsArg)]
  /\ ConcFrame

\* The transport answers the request of invocation c.
ConcServer(c) ==
  /\ calls[c].pc = "await"
  /\ calls[c].response = NoResp
  /\ \E r \in ConcResponses(calls[c]) :
       calls' = [calls EXCEPT ![c].response = r,
                              ![c].hist = Append(calls[c].hist, r)]
  /\ ConcFrame

ConcDatesResume(c) ==
  /\ calls[c].op = "dates"
  /\ calls[c].pc = "await"
  /\ calls[c].response # NoResp
  /\ calls' = [calls EXCEPT ![c] = StepDates(calls[c], SeenOf(c))]
  /\ ConcFrame

ConcIdsResume(c) ==
  /\ calls[c].op = "ids"
  /\ calls[c].pc = "await"
  /\ calls[c].response # NoResp
  /\ calls' = [calls EXCEPT ![c] = StepIds(calls[c])]
  /\ ConcFrame

CallConcDates ==
  \E c \in Calls, since \in 0..1, until \in ConcIds :
    ConcDates(c, since, until)

CallConcIds == \E c \in Calls, idsArg \in ConcIdsInputs : ConcItemsIds(c, idsArg)

AnswerConc == \E c \in Calls : ConcServer(c)

ResumeConcDates == \E c \in Calls : ConcDatesResume(c)

ResumeConcIds == \E c \in Calls : ConcIdsResume(c)

InitConc == Init /\ srvMode = "any"

NextConc ==
  \/ CallConcDates
  \/ CallConcIds
  \/ AnswerConc
  \/ ResumeConcDates
  \/ ResumeConcIds

ConcSpec == InitConc /\ [][NextConc]_vars

----------------------------------------------------------------------------
(* The earlier clients FreshRSSAPI and APICore: construction with the      *)
(* probe started and not awaited, and a data call.                         *)

LegacyFrame ==
  /\ UNCHANGED <<srvMode, srvItems, op, pc, err, result, req, response,
                 nCalls, calls, http, markArg>>
  /\ UNCHANGED itemVars
  /\ UNCHANGED authVars

\* new FreshRSSAPI(options) / new APICore(options).  absolute: the host is
\* an absolute URL; axios: require('axios') succeeds.
LegacyNew(version, options, env, absolute, axios) ==
  /\ legacy.version = "none"
  /\ LET c == Resolve(options, env)
         l == [NoLegacy EXCEPT !.version = version, !.cfg = c,
                               !.absolute = absolute, !.axios = axios]
     IN legacy' =
          IF Missing(c.host) THEN [l EXCEPT !.ctorErr = "Error:HostRequired"]
          ELSE IF Missing(c.username)
          THEN [l EXCEPT !.ctorErr = "Error:UsernameRequired"]
          ELSE IF Missing(c.password)
          THEN [l EXCEPT !.ctorErr = "Error:PasswordRequired"]
          ELSE IF version = "FreshRSSAPI" /\ ~absolute
          THEN [l EXCEPT !.ctorErr = "TypeError:InvalidURL"]
          ELSE [l EXCEPT !.made = TRUE,
                         !.call["probe"] = TryRequest(LegacyIdle, l)]
  /\ LegacyFrame

\* Faulty variant of get_feeds: as if the constructor had awaited the
\* probe.
get_feedsAfterProbe ==
  /\ legacy.made
  /\ legacy.call["probe"].pc \in {"returned", "thrown"}
  /\ legacy.call["data"].pc = "idle"
  /\ legacy' = [legacy EXCEPT !.call["data"] = TryRequest(LegacyIdle, legacy)]
  /\ LegacyFrame

\* A data call on the constructed object: get_feeds, i.e. _call('feeds').
get_feeds ==
  /\ legacy.made
  /\ legacy.call["data"].pc = "idle"
  /\ legacy' = [legacy EXCEPT !.call["data"] = TryRequest(LegacyIdle, legacy)]
  /\ LegacyFrame

\* The transport settles the request a call is suspended on.
LegacyAnswer(c) ==
  /\ legacy.call[c].pc \in {"axios", "fetch"}
  /\ legacy.call[c].answer = "none"
  /\ \E a \in LegacyAnswers(legacy.call[c].pc) :
       legacy' = [legacy EXCEPT !.call[c].answer = a]
  /\ LegacyFrame

\* The call goes on after the answer; the probe's call is followed by the
\* check of _check_auth / authenticate.
LegacyResume(c) ==
  /\ legacy.call[c].pc \in {"axios", "fetch"}
  /\ legacy.call[c].answer # "none"
  /\ LET me == Resumed(legacy.call[c], legacy)
     IN legacy' = [legacy EXCEPT
                     !.call[c] = IF c = "probe" THEN CheckAuth(me) ELSE me]
  /\ LegacyFrame

\* The retry delay has passed: continue, the next pass of while (true).
LegacyRetry(c) ==
  /\ legacy.call[c].pc = "delay"
  /\ legacy' = [legacy EXCEPT !.call[c] = TryRequest(legacy.call[c], legacy)]
  /\ LegacyFrame

CallLegacyNew ==
  \E version \in LegacyVersions, options \in Options, env \in Env,
     absolute \in BOOLEAN, axios \in BOOLEAN :
    LegacyNew(version, options, env, absolute, axios)

InitLegacy == Init /\ srvMode = "any"

NextLegacy ==
  \/ CallLegacyNew
  \/ get_feeds
  \/ \E c \in LegacyCalls : LegacyAnswer(c)
  \/ \E c \in LegacyCalls : LegacyResume(c)
  \/ \E c \in LegacyCalls : LegacyRetry(c)

LegacySpec == InitLegacy /\ [][NextLegacy]_vars

----------------------------------------------------------------------------
(* The same client against the honest server only, with the scheduling     *)
(* the runtime gives: the transport answers every request, and a function  *)
(* suspended on an await is resumed once its response has arrived.         *)

InitHonest == Init /\ srvMode = "honest"

NextHonest ==
  \/ CallDates
  \/ CallIds
  \/ DatesResume
  \/ IdsResume
  \/ ServerHonest

FairSpec ==
  /\ InitHonest
  /\ [][NextHonest]_vars
  /\ WF_vars(ServerHonest)
  /\ WF_vars(DatesResume)
  /\ WF_vars(IdsResume)

----------------------------------------------------------------------------
(* Properties.                                                             *)

TypeOK ==
  /\ srvMode \in {"honest", "any"}
  /\ srvItems \subseteq Ids
  /\ op \in {"none", "createFever", "createGreader", "dates", "ids", "subs",
            "unreads", "saved",
            "mark"}
  /\ pc \in {"new", "probe", "login", "token", "idle", "await", "done",
            "failed"}
  /\ proto \in {"none", "fever", "greader"}
  /\ created \in BOOLEAN
  /\ sid \in {Unset, "x", "y"}
  /\ userAuth \in {Unset, "x", "y"}
  /\ sessionToken \in {Unset, "t"}
  /\ Len(authLog) <= 2
  /\ nCalls \in 0..MaxCalls
  /\ seenIds \subseteq Ids
  /\ markArg.action \in MarkActions \cup {"none"}
  /\ legacy.version \in LegacyVersions \cup {"none"}
  /\ \A c \in LegacyCalls :
       /\ legacy.call[c].pc \in {"idle", "axios", "fetch", "delay",
                                 "returned", "thrown"}
       /\ legacy.call[c].attempt \in 0..(MaxRetries + 1)
  /\ http.pc \in {"idle", "fetch", "fetched", "returned", "thrown"}
  /\ \A c \in Calls :
       /\ calls[c].op \in {"none", "dates", "ids"}
       /\ calls[c].pc \in {"idle", "await", "done", "failed"}
       /\ calls[c].seenIds \subseteq ConcIds
       /\ Len(calls[c].hist) <= ConcDepth + 1
  /\ response.kind \in {"none", "error", "page", "probe", "body", "token",
                       "denied", "object", "null", "text", "idlist"}
  /\ req.kind \in {"none", "since", "with_ids", "probe", "login", "token",
                  "data", "mark", "list"}

Returned == pc = "done"
Finished == pc \in {"done", "failed"}

StrictlyAscending(s) == \A k \in 1..(Len(s) - 1) : s[k] < s[k + 1]

\* Number of entries of the list s that exceed u.
CountAbove(s, u) == Cardinality({k \in DOMAIN s : s[k] > u})

MaxOf(S) == CHOOSE x \in S : \A y \in S : y <= x

\* ceil(n / BatchSize)
Chunks(n) == (n + BatchSize - 1) \div BatchSize

\* C1: the list returned by getItemsFromDates holds no id twice, and its
\* length is the number of distinct ids accepted, whatever pages came.
C1_NoDuplicateIds ==
  (op = "dates" /\ Returned) =>
    /\ NoDup(result)
    /\ Len(result) = Cardinality(seenIds)
    /\ Range(result) = seenIds

\* A run with nothing above until in which two pages delivered three items
\* but only two distinct ids: one id was delivered twice.
C1_Witness ==
  /\ op = "dates" /\ Returned
  /\ untilId >= MaxId
  /\ nCalls = 2
  /\ response.kind = "page" /\ Len(response.items) = 1
  /\ Len(result) = 2
  /\ response.items[1] \in Range(result)

\* C2: against the honest server getItemsFromDates eventually returns.
C2_Terminates == (op = "dates" /\ pc = "await") ~> Finished

C4_CursorPastExcluded ==
  [][(/\ op = "dates" /\ pc = "await"
      /\ response.kind = "page"
      /\ Len(response.items) = PageSize
      /\ CountAbove(response.items, untilId) >= 2)
     => (/\ \A x \in Range(allItems') : x <= untilId
         /\ currentSinceId' = MaxOf(Range(response.items))
         /\ pc' = "await"
         /\ req' = SinceReq(currentSinceId')
         /\ response' = NoResp)]_vars

\* C5: every returned item has id <= until.
C5_UpperBound ==
  (op = "dates" /\ Returned) => \A k \in DOMAIN result : result[k] <= untilId

\* A short last page that carried an id above until, after an accepted one.
C5_Witness ==
  /\ op = "dates" /\ Returned
  /\ Len(result) >= 1
  /\ response.kind = "page"
  /\ IsShortPage(response.items)
  /\ CountAbove(response.items, untilId) >= 1

\* C6: a page that is empty or shorter than the page size ends the call
\* with no further data call; a full page is followed by one more data call;
\* once returned, no call is issued.
C6_StopsAtShortPage ==
  /\ [][(op = "dates" /\ pc = "await"
           /\ response.kind \in {"page", "denied"})
        => IF Len(Items(response)) < PageSize
           THEN pc' = "done" /\ nCalls' = nCalls /\ req' = req
           ELSE /\ pc' = "await"
                /\ response' = NoResp
                /\ req'.kind = "since"
                /\ nCalls' = CountCall(nCalls)]_vars
  /\ [][Finished => (pc' = pc /\ nCalls' = nCalls /\ req' = req)]_vars
  /\ []((op = "dates" /\ Returned)
          => (/\ response.kind \in {"page", "denied"}
              /\ Len(Items(response)) < PageSize))

\* A full page followed by a short, non-empty one: exactly two calls.
C6_Witness ==
  /\ op = "dates" /\ Returned
  /\ nCalls = 2
  /\ response.kind = "page" /\ Len(response.items) = 1
  /\ untilId >= MaxId

\* C7: when normalized since is not below normalized until, the call fails
\* with the validation error and no transport call was issued.
C7_ValidationBeforeCalls ==
  (/\ op = "dates"
   /\ err \notin {"Error:SinceRequired", "Error:InvalidDate"}
   /\ ~(sinceId < untilId))
  => (/\ pc = "failed"
      /\ err = "Error:SinceNotEarlier"
      /\ nCalls = 0
      /\ req = NoReq
      /\ result = <<>>)

C7_Witness ==
  /\ op = "dates"
  /\ err = "Error:SinceNotEarlier"
  /\ sinceId = untilId
  /\ sinceId > 0

\* C8: the returned list is sorted strictly ascending by id.
C8_SortedAscending ==
  (op = "dates" /\ Returned) => StrictlyAscending(result)

\* Items arrived out of order and were put in order.
C8_Witness ==
  /\ op = "dates" /\ Returned
  /\ Len(result) >= 2
  /\ ~StrictlyAscending(allItems)
  /\ nCalls >= 2

\* C9: once every chunk was answered, a total item count different from the
\* number of requested ids makes getItemsFromIds fail with APIError, with
\* nothing returned and one call per chunk (no retry).
C9_CountMismatchFails ==
  (/\ op = "ids"
   /\ Len(ids) > 0
   /\ i >= Len(ids)
   /\ Len(allItems) # Len(ids))
  => (/\ pc = "failed"
      /\ err = "APIError:Count"
      /\ result = <<>>
      /\ nCalls = Chunks(Len(ids)))

\* Two chunks answered with one item too many in total.
C9_Witness ==
  /\ op = "ids"
  /\ err = "APIError:Count"
  /\ nCalls = 2
  /\ Len(allItems) = Len(ids) + 1

\* C10 as stated: for all non-empty ids that the server holds, the call
\* returns len(ids) items sorted strictly ascending.
C10_Original ==
  (/\ op = "ids" /\ Finished
   /\ Len(ids) > 0
   /\ srvMode = "honest"
   /\ Range(ids) \subseteq srvItems)
  => (/\ Returned
      /\ Len(result) = Len(ids)
      /\ StrictlyAscending(result))

\* C10 amended: for all non-empty ids without a repeated id that the server
\* holds, the call returns len(ids) items sorted strictly ascending.
C10_DistinctIdsReturned ==
  (/\ op = "ids" /\ Finished
   /\ Len(ids) > 0
   /\ NoDup(ids)
   /\ srvMode = "honest"
   /\ Range(ids) \subseteq srvItems)
  => (/\ Returned
      /\ Len(result) = Len(ids)
      /\ StrictlyAscending(result)
      /\ Range(result) = Range(ids))

\* Two chunks, ids requested out of order.
C10_Witness ==
  /\ op = "ids" /\ Returned
  /\ srvMode = "honest"
  /\ NoDup(ids)
  /\ Len(ids) > BatchSize
  /\ ~StrictlyAscending(ids)
  /\ allItems # result

\* C11: getItemsFromIds requests the consecutive slices of ids, at most
\* BatchSize ids each, one call after the other: the k-th call (from 0)
\* carries ids[k*BatchSize + 1 .. k*BatchSize + BatchSize], and when every
\* call was answered ceil(n / BatchSize) calls were issued.
C11_ChunkedInOrder ==
  (op = "ids" /\ Len(ids) > 0) =>
    /\ (pc = "await" =>
          /\ req.kind = "with_ids"
          /\ i = BatchSize * (nCalls - 1)
          /\ Len(req.ids) >= 1
          /\ Len(req.ids) <= BatchSize
          /\ Len(req.ids) = (IF Len(ids) - i < BatchSize
                             THEN Len(ids) - i ELSE BatchSize)
          /\ \A j \in DOMAIN req.ids : req.ids[j] = ids[i + j])
    /\ ((Finished /\ err # "Error:HTTP") => nCalls = Chunks(Len(ids)))

\* The second, shorter chunk of a list of distinct ids is in flight.
C11_Witness ==
  /\ op = "ids" /\ pc = "await"
  /\ Len(ids) = BatchSize + 1
  /\ NoDup(ids)
  /\ nCalls = 2
  /\ req.ids = <<ids[Len(ids)]>>

\* C12: getItemsFromIds with an empty list returns an empty list and issues
\* no transport call.
C12_EmptyIdsNoCall ==
  (op = "ids" /\ Len(ids) = 0) =>
    /\ Returned
    /\ result = <<>>
    /\ nCalls = 0
    /\ req = NoReq
    /\ response = NoResp

C12_Witness ==
  /\ op = "ids" /\ Returned
  /\ ids = <<>>
  /\ nCalls = 0

----------------------------------------------------------------------------
(* Properties of client creation, checked under AuthSpec.                  *)

IsAuthenticationError(e) ==
  e \in {"AuthenticationError:Probe", "AuthenticationError:Login",
         "AuthenticationError:MissingSID", "AuthenticationError:Token"}

IsConfigurationError(e) ==
  e \in {"Error:HostRequired", "Error:UsernameRequired",
         "Error:PasswordRequired"}

\* No line of the body gives the key a non-empty value.
LacksValue(lines, key) ==
  \A k \in DOMAIN lines : lines[k].key = key => lines[k].value = ""

\* A credential field holds a non-empty value.
IsSet(v) == v # Unset /\ v # ""

\* C13: a login response without a non-empty Auth, or without a non-empty
\* SID, makes GreaderClient.create fail with AuthenticationError; no token
\* request is issued and no client is returned.
C13_LoginRejected ==
  /\ [][(/\ pc = "login"
         /\ response.kind = "body"
         /\ (LacksValue(response.lines, "Auth")
               \/ LacksValue(response.lines, "SID")))
        => (/\ pc' = "failed"
            /\ IsAuthenticationError(err')
            /\ authLog' = authLog
            /\ ~created')]_vars
  /\ [][(op = "createGreader" /\ pc = "failed")
        => (pc' = "failed" /\ authLog' = authLog /\ ~created')]_vars

\* Auth was present, SID was not.
C13_Witness ==
  /\ op = "createGreader"
  /\ err = "AuthenticationError:MissingSID"
  /\ response.kind = "body"
  /\ ~LacksValue(response.lines, "Auth")
  /\ authLog = <<"login">>
  /\ ~created

\* C14: after a login response with Auth and SID, an empty or absent token
\* makes GreaderClient.create fail with AuthenticationError, and no client
\* is returned.
C14_EmptyTokenRejected ==
  /\ [][(/\ pc = "token"
         /\ response.kind = "token"
         /\ response.value \in {"", Unset})
        => (/\ pc' = "failed"
            /\ err' = "AuthenticationError:Token"
            /\ ~created')]_vars
  /\ []((op = "createGreader" /\ err = "AuthenticationError:Token")
          => (pc = "failed" /\ ~created /\ sessionToken = Unset))

C14_Witness ==
  /\ op = "createGreader"
  /\ err = "AuthenticationError:Token"
  /\ IsSet(sid) /\ IsSet(userAuth)
  /\ response = TokenResp("")

\* C15: the session authentication issues one login request, then at most
\* one token request, the latter only after a login response that carried
\* Auth and SID; create returns a client only with SID, Auth and token set.
C15_SessionStateMachine ==
  proto = "greader" =>
    /\ authLog \in {<<>>, <<"login">>, <<"login", "token">>}
    /\ (authLog = <<>> => (pc = "failed" /\ IsConfigurationError(err)))
    /\ (pc = "login" => authLog = <<"login">>)
    /\ (pc = "token" => authLog = <<"login", "token">>)
    /\ (authLog = <<"login", "token">> => (IsSet(userAuth) /\ IsSet(sid)))
    /\ (authLog = <<"login">> => (sessionToken = Unset /\ ~created))
    /\ (created => /\ authLog = <<"login", "token">>
                   /\ IsSet(sid) /\ IsSet(userAuth) /\ IsSet(sessionToken))

C15_Witness ==
  /\ proto = "greader"
  /\ created
  /\ pc = "idle"
  /\ sid # userAuth
  /\ IsSet(sessionToken)

\* C16 as stated: sid, userAuth and sessionToken of a GreaderClient are
\* either all unset or all set.
C16_Original ==
  proto = "greader" =>
    \/ (sid = Unset /\ userAuth = Unset /\ sessionToken = Unset)
    \/ (IsSet(sid) /\ IsSet(userAuth) /\ IsSet(sessionToken))

\* C16 amended: a client returned by create has all three set; sid and
\* userAuth are set together; they are set without sessionToken only inside
\* create, while the token request is pending or after it failed, on a
\* client that is never returned.
C16_NoPartialClientReturned ==
  proto = "greader" =>
    /\ (created => (IsSet(sid) /\ IsSet(userAuth) /\ IsSet(sessionToken)))
    /\ (IsSet(sid) <=> IsSet(userAuth))
    /\ (IsSet(sessionToken) => IsSet(sid))
    /\ ((IsSet(sid) /\ ~IsSet(sessionToken))
          => (/\ ~created
              /\ op = "createGreader"
              /\ pc \in {"token", "failed"}
              /\ nCalls = 0))

\* The token request is pending: SID and Auth are stored, the token is not.
C16_Witness ==
  /\ proto = "greader"
  /\ pc = "token"
  /\ IsSet(sid) /\ IsSet(userAuth)
  /\ sessionToken = Unset
  /\ ~created

\* C17: once a client was created no login, token or probe request is
\* issued again; a data call that fails at the transport fails the
\* operation with that error, with no further call of any kind.
C17_NoReauthentication ==
  /\ [][created => authLog' = authLog]_vars
  /\ [][(pc = "await" /\ response.kind = "error")
        => (/\ pc' = "failed"
            /\ err' = "Error:HTTP"
            /\ nCalls' = nCalls
            /\ req' = req
            /\ authLog' = authLog)]_vars
  /\ [][pc = "failed"
        => (pc' = "failed" /\ nCalls' = nCalls /\ authLog' = authLog)]_vars

\* A created session client whose data call failed.
C17_Witness ==
  /\ proto = "greader"
  /\ created
  /\ op = "subs"
  /\ pc = "failed"
  /\ err = "Error:HTTP"
  /\ nCalls = 1
  /\ authLog = <<"login", "token">>

\* C18: FeverClient.create issues one probe carrying the derived key; a
\* probe response whose auth is absent or falsy fails with
\* AuthenticationError, a transport failure of the probe fails with that
\* failure, and in both cases no client is returned.
C18_ProbeValidates ==
  /\ [](proto = "fever" =>
          /\ authLog \in {<<>>, <<"probe">>}
          /\ (pc = "probe" =>
                /\ authLog = <<"probe">>
                /\ req.kind = "probe"
                /\ req.api_key = <<"md5", cfg.username, cfg.password>>)
          /\ (created => authLog = <<"probe">>))
  /\ [][(pc = "probe" /\ response.kind = "probe" /\ response.auth # "true")
        => (/\ pc' = "failed"
            /\ err' = "AuthenticationError:Probe"
            /\ authLog' = authLog
            /\ ~created')]_vars
  /\ [][(pc = "probe" /\ response.kind = "error")
        => (/\ pc' = "failed"
            /\ err' = "Error:HTTP"
            /\ authLog' = authLog
            /\ ~created')]_vars
  /\ [][(op = "createFever" /\ pc = "failed")
        => (pc' = "failed" /\ ~created')]_vars

C18_Witness ==
  /\ op = "createFever"
  /\ pc = "failed"
  /\ err = "AuthenticationError:Probe"
  /\ response = ProbeResp("absent")
  /\ ~created

\* C19: every data call of a client is issued after create has returned it,
\* and create returns it only on consuming a successful probe (keyed) or a
\* non-empty token after a successful login (session).
C19_ValidatedBeforeData ==
  /\ []((nCalls > 0 \/ req.kind \in {"since", "with_ids", "data"})
          => /\ created
             /\ (proto = "fever" => (apiKey # NoKey /\ authLog = <<"probe">>))
             /\ (proto = "greader" =>
                   (IsSet(sid) /\ IsSet(userAuth) /\ IsSet(sessionToken))))
  /\ [][(~created /\ created')
        => \/ (pc = "probe" /\ response = ProbeResp("true"))
           \/ (/\ pc = "token"
               /\ response.kind = "token"
               /\ IsSet(response.value)
               /\ IsSet(sid) /\ IsSet(userAuth))]_vars
  /\ [][created => created']_vars

\* A data call of a keyed client created in this behaviour is in flight.
C19_Witness ==
  /\ proto = "fever"
  /\ created
  /\ op = "ids"
  /\ pc = "await"
  /\ nCalls = 1
  /\ req.kind = "with_ids"

\* C20: when host, username or password is still missing after the
\* environment fallback, creation fails with a configuration error, not an
\* authentication error, and no request is issued; for both protocols.
C20_ConfigurationError ==
  (/\ proto # "none"
   /\ (cfg.host = "" \/ cfg.username = "" \/ cfg.password = ""))
  => (/\ pc = "failed"
      /\ IsConfigurationError(err)
      /\ ~IsAuthenticationError(err)
      /\ authLog = <<>>
      /\ nCalls = 0
      /\ req = NoReq
      /\ ~created)

C20_Witness ==
  /\ proto = "greader"
  /\ pc = "failed"
  /\ err = "Error:PasswordRequired"
  /\ cfg.host = "h" /\ cfg.username = "u" /\ cfg.password = ""
  /\ authLog = <<>>

----------------------------------------------------------------------------
(* Properties of the data calls of a created client, checked under         *)
(* AuthSpec.                                                               *)

\* C21: a data call whose response signals invalid authentication makes
\* the operation that issued it fail with AuthenticationError.
C21_DeniedFailsOperation ==
  [][(/\ op \in {"dates", "ids", "mark"}
      /\ pc = "await"
      /\ response.kind = "denied")
     => (pc' = "failed" /\ IsAuthenticationError(err'))]_vars

\* C22: setMark with action 'unread' fails at once with the capability
\* error and issues no transport call, for every id.
C22_UnreadRejected ==
  (op = "mark" /\ markArg.action = "unread") =>
    /\ pc = "failed"
    /\ err = "Error:UnreadUnsupported"
    /\ ~IsAuthenticationError(err)
    /\ nCalls = 0
    /\ req.kind # "mark"
    /\ result = <<>>

C22_Witness ==
  /\ op = "mark"
  /\ markArg = [action |-> "unread", id |-> MaxId]
  /\ pc = "failed"
  /\ nCalls = 0

\* C23: setMark with action read, saved or unsaved issues one data call
\* and returns the response unchanged, whatever its shape.
C23_MarkReturnsResponse ==
  /\ [](op = "mark" /\ markArg.action # "unread" => nCalls = 1)
  /\ [][(/\ op = "mark"
         /\ pc = "await"
         /\ response.kind \notin {"none", "error"})
        => (pc' = "done" /\ result' = response /\ nCalls' = nCalls)]_vars

\* C25: the credential is created once and not changed afterwards: each
\* credential field is assigned at most once, and no operation on a created
\* client changes apiKey, apiEndpoint, sid, userAuth or sessionToken.
C25_CredentialImmutable ==
  /\ [][created
        => UNCHANGED <<apiKey, apiEndpoint, sid, userAuth,
                       sessionToken>>]_vars
  /\ [][apiKey # NoKey => apiKey' = apiKey]_vars
  /\ [][apiEndpoint # NoEndpoint => apiEndpoint' = apiEndpoint]_vars
  /\ [][sid # Unset => sid' = sid]_vars
  /\ [][userAuth # Unset => userAuth' = userAuth]_vars
  /\ [][sessionToken # Unset => sessionToken' = sessionToken]_vars

\* A session client after a data call that returned.
C25_Witness ==
  /\ proto = "greader"
  /\ created
  /\ op = "subs"
  /\ pc = "done"
  /\ IsSet(sessionToken)
  /\ nCalls = 1

\* C26: a transport failure inside getItemsFromDates or getItemsFromIds
\* fails the operation with that error; no further call is issued and
\* nothing is returned.
C26_TransportFailurePropagates ==
  /\ [][(/\ op \in {"dates", "ids"}
         /\ pc = "await"
         /\ response.kind = "error")
        => (/\ pc' = "failed"
            /\ err' = "Error:HTTP"
            /\ nCalls' = nCalls
            /\ req' = req
            /\ result' = <<>>)]_vars
  /\ [][(op \in {"dates", "ids"} /\ pc = "failed")
        => (/\ pc' = "failed"
            /\ err' = err
            /\ nCalls' = nCalls
            /\ req' = req
            /\ result' = <<>>)]_vars

\* The second page's call failed after items had been accumulated.
C26_Witness ==
  /\ op = "dates"
  /\ pc = "failed"
  /\ err = "Error:HTTP"
  /\ nCalls = 2
  /\ Len(allItems) >= 1
  /\ result = <<>>

\* The value of the last line of the login body that gives the key.
LastValue(lines, key) ==
  LET ks == {k \in DOMAIN lines : lines[k].key = key}
  IN lines[MaxOf(ks)].value

\* C27: every data call of a session client carries the token as T, the
\* Authorization built from Auth and the cookie built from SID, each the
\* value obtained in the login sequence.
C27_DataCallCarriesCredential ==
  /\ [](req.kind = "data" =>
          /\ req.T = sessionToken /\ IsSet(req.T)
          /\ req.Authorization = userAuth /\ IsSet(req.Authorization)
          /\ req.Cookie = sid /\ IsSet(req.Cookie))
  /\ [][(pc = "login" /\ pc' = "token")
        => (/\ userAuth' = LastValue(response.lines, "Auth")
            /\ sid' = LastValue(response.lines, "SID")
            /\ req'.Authorization = userAuth')]_vars
  /\ [][(pc = "token" /\ created')
        => sessionToken' = response.value]_vars
  /\ [][created => UNCHANGED <<sid, userAuth, sessionToken>>]_vars

\* A data call in flight whose cookie and authorization differ.
C27_Witness ==
  /\ req.kind = "data"
  /\ pc = "await"
  /\ response = NoResp
  /\ req.Cookie # req.Authorization
  /\ IsSet(req.Cookie)

\* C28: the until bound of getItemsFromDates is exclusive: no returned item
\* has the normalized until as its id.
C28_UntilExclusive ==
  (op = "dates" /\ Returned) => \A k \in DOMAIN result : result[k] # untilId

\* C30: in getItemsFromDates the number of accumulated items equals the size
\* of the seen-id set after every batch, so the duplicate error is never
\* raised.
C30_NoConsistencyError ==
  op = "dates" =>
    /\ Len(allItems) = Cardinality(seenIds)
    /\ Range(allItems) = seenIds
    /\ err # "Error:Duplicate"

\* A full page of which one id only was accepted, though nothing was above
\* until: the page repeated an id; the next call is in flight.
C30_Witness ==
  /\ op = "dates"
  /\ pc = "await"
  /\ nCalls = 2
  /\ untilId >= MaxId
  /\ Len(allItems) = 1
  /\ seenIds = {allItems[1]}

----------------------------------------------------------------------------
(* The transport's decoding, checked under HttpSpec.                       *)

\* C29: a non-OK status fails before any decoding; otherwise a JSON content
\* type yields the parsed value, a plain-text content type the raw string,
\* and any other content type the raw bytes.
C29_DecodingByContentType ==
  http.pc \in {"returned", "thrown"} =>
    IF ~http.resp.ok
    THEN http.pc = "thrown" /\ http.err = "HTTP" /\ http.decoded = "none"
    ELSE IF "application/json" \in http.resp.contentType
    THEN (http.resp.validJson =>
            (http.pc = "returned" /\ http.decoded = "json"))
    ELSE IF "text/plain" \in http.resp.contentType
    THEN http.pc = "returned" /\ http.decoded = "text"
    ELSE http.pc = "returned" /\ http.decoded = "blob"

----------------------------------------------------------------------------
(* Concurrent invocations, checked under ConcSpec.                         *)

\* The invocation as its arguments leave it at its first await.
StartOf(me) ==
  IF me.op = "dates" THEN StartDates(me.sinceId, me.untilId)
  ELSE StartIds(me.ids)

\* The invocation run alone: started with its arguments and given the
\* answers hist[k..], each consumed before the next is delivered.
RECURSIVE AloneFrom(_, _, _)
AloneFrom(st, hist, k) ==
  IF k > Len(hist) \/ st.pc # "await" THEN st
  ELSE LET got == [st EXCEPT !.response = hist[k],
                             !.hist = Append(st.hist, hist[k])]
       IN AloneFrom(IF got.op = "dates" THEN StepDates(got, got.seenIds)
                    ELSE StepIds(got),
                    hist, k + 1)

Pending(me) == me.pc = "await" /\ me.response # NoResp

\* The answers the invocation has consumed.
Consumed(me) ==
  IF Pending(me) THEN SubSeq(me.hist, 1, Len(me.hist) - 1) ELSE me.hist

\* C24: whatever the interleaving of two invocations at their awaits, each
\* is in the state, and returns the result or error, it would have if run
\* alone against the answers it received.
C24_NoInterference ==
  \A c \in Calls :
    calls[c].op # "none" =>
      LET me == calls[c]
          solo == AloneFrom(StartOf(me), Consumed(me), 1)
      IN /\ me.pc = solo.pc
         /\ me.result = solo.result
         /\ me.err = solo.err
         /\ me.currentSinceId = solo.currentSinceId
         /\ me.allItems = solo.allItems
         /\ me.seenIds = solo.seenIds
         /\ me.i = solo.i
         /\ me.req = solo.req

\* Both invocations have consumed a full page and are suspended on their
\* second request at the same time.
C24_Witness ==
  /\ calls["a"].op = "dates" /\ calls["b"].op = "dates"
  /\ calls["a"].pc = "await" /\ calls["b"].pc = "await"
  /\ Len(calls["a"].hist) = 1 /\ Len(calls["b"].hist) = 1
  /\ calls["a"].response = NoResp /\ calls["b"].response = NoResp
  /\ calls["a"].seenIds # {}
  /\ calls["a"].seenIds = calls["b"].seenIds

----------------------------------------------------------------------------
(* The since_id cursor of getItemsFromDates                                *)

\* C31: in getItemsFromDates every since_id sent is the current cursor; the
\* cursor starts at the normalized since, never decreases and never exceeds
\* the normalized until; between two consecutive calls it changes only
\* when the page consumed in between held an id above the cursor that was
\* newly accepted (not seen before, not above until), and then it becomes
\* such an id.
C31_CursorMonotoneBounded ==
  /\ [](op = "dates" /\ pc = "await"
          => /\ req = SinceReq(currentSinceId)
             /\ sinceId <= currentSinceId
             /\ currentSinceId <= untilId)
  /\ [][(pc = "idle" /\ op' = "dates" /\ pc' = "await")
          => /\ currentSinceId' = sinceId'
             /\ req' = SinceReq(sinceId')]_vars
  /\ [][(op = "dates" /\ pc = "await" /\ response # NoResp)
          => /\ currentSinceId' >= currentSinceId
             /\ currentSinceId' # currentSinceId
                  => \E k \in DOMAIN Items(response) :
                        /\ Items(response)[k] = currentSinceId'
                        /\ Items(response)[k] > currentSinceId
                        /\ Items(response)[k] \notin seenIds
                        /\ Items(response)[k] <= untilId]_vars

\* A second call is in flight whose cursor moved past the normalized since.
C31_Witness ==
  /\ op = "dates"
  /\ pc = "await"
  /\ nCalls = 2
  /\ currentSinceId > sinceId

----------------------------------------------------------------------------
(* The aggregate count check of getItemsFromIds                            *)

\* C32: getItemsFromIds compares only the total number of items received
\* with the number of ids requested, and only after the response to the
\* last chunk: a chunk that is not the last is followed by the request for
\* the next chunk whatever it held, and after the last chunk the operation
\* returns exactly when the per-chunk counts add up to the number of ids,
\* and fails with the count APIError otherwise.
C32_AggregateCountOnly ==
  /\ [](op = "ids" /\ pc = "failed" /\ err = "APIError:Count"
          => /\ i >= Len(ids)
             /\ Len(allItems) # Len(ids))
  /\ [][(op = "ids" /\ pc = "await" /\ response # NoResp
           /\ response.kind # "error")
          => /\ Len(allItems') = Len(allItems) + Len(Items(response))
             /\ IF i + BatchSize < Len(ids)
                THEN /\ pc' = "await"
                     /\ req'.kind = "with_ids"
                     /\ req'.ids = SubSeq(ids, i + BatchSize + 1,
                                          Min(i + 2 * BatchSize, Len(ids)))
                ELSE /\ pc' = "done" <=> Len(allItems') = Len(ids)
                     /\ pc' = "failed" <=> Len(allItems') # Len(ids)
                     /\ pc' = "failed" => err' = "APIError:Count"]_vars

\* A two-chunk call returned although the first chunk came back short: the
\* last chunk held more items than ids requested, and the ids returned are
\* not the ids requested.
C32_Witness ==
  /\ op = "ids"
  /\ pc = "done"
  /\ Len(ids) = BatchSize + 1
  /\ Len(Items(response)) = 2
  /\ Len(result) = Len(ids)
  /\ Range(result) # Range(ids)

----------------------------------------------------------------------------
(* The login response as a set of KEY=VALUE pairs                          *)

\* What authenticate() makes of a login body: the error thrown, or the Auth
\* and SID values stored.
LoginOutcome(lines) ==
  LET parsed == parseAuthResponse(lines) IN
    IF ~LoginAuthOk(parsed["Auth"])
    THEN [ok |-> FALSE, err |-> "AuthenticationError:Login",
          auth |-> Unset, sid |-> Unset]
    ELSE IF ~LoginSidOk(parsed["SID"])
    THEN [ok |-> FALSE, err |-> "AuthenticationError:MissingSID",
          auth |-> Unset, sid |-> Unset]
    ELSE [ok |-> TRUE, err |-> "",
          auth |-> parsed["Auth"], sid |-> parsed["SID"]]

\* The outcome as the client holds it after the login step.
StoredOutcome ==
  [ok   |-> pc = "token",
   err  |-> IF pc = "failed" THEN err ELSE "",
   auth |-> userAuth,
   sid  |-> sid]

\* The same lines in every order.
Rearranged(lines) ==
  {[k \in DOMAIN lines |-> lines[p[k]]] : p \in Perms(DOMAIN lines)}

\* Lines authenticate() does not read: a key other than SID and Auth, or
\* no KEY=VALUE shape at all.
Ignorable == {l \in Lines : l.key \notin {"SID", "Auth"}}

\* One ignorable line inserted at any position.
WithExtra(lines) ==
  {SubSeq(lines, 1, k) \o <<l>> \o SubSeq(lines, k + 1, Len(lines)) :
     k \in 0..Len(lines), l \in Ignorable}

\* Bodies with the same SID and Auth pairs, up to order and ignorable lines.
Variants(lines) ==
  UNION {Rearranged(w) : w \in {lines} \cup WithExtra(lines)}

\* No two lines give different values to SID, or to Auth.
SingleValued(lines) ==
  \A a, b \in DOMAIN lines :
     (lines[a].key = lines[b].key /\ lines[a].key \in {"SID", "Auth"})
       => lines[a].value = lines[b].value

\* C33 as stated: whatever the login body, the login step ends as it would
\* for the same lines in any other order, with or without a further line
\* of another key: same success or failure, same SID and Auth stored.
C33_Original ==
  [][(pc = "login" /\ response.kind = "body")
       => \A q \in Variants(response.lines) :
             StoredOutcome' = LoginOutcome(q)]_vars

\* C33 amended: the same, for login bodies in which neither SID nor Auth is
\* given two different values.  (With two values the last line wins.)
C33_OrderIrrelevantWhenSingleValued ==
  [][(pc = "login" /\ response.kind = "body"
        /\ SingleValued(response.lines))
       => \A q \in Variants(response.lines) :
             StoredOutcome' = LoginOutcome(q)]_vars

\* A login body of three lines is about to be parsed: Auth first, SID
\* last, a line of another key between them; the login succeeds.
C33_Witness ==
  /\ pc = "login"
  /\ response.kind = "body"
  /\ Len(response.lines) = 3
  /\ response.lines[1] = Line("Auth", "y")
  /\ response.lines[2].key = "LSID"
  /\ response.lines[3] = Line("SID", "x")
  /\ LoginOutcome(response.lines).ok

----------------------------------------------------------------------------
(* getUnreads and getSaved                                                 *)

ListedOps == {"unreads", "saved"}

\* The number of ids a list response names.
Listed(resp) ==
  IF resp.kind = "idlist"
  THEN Cardinality({k \in DOMAIN resp.tokens : resp.tokens[k] # Blank})
  ELSE 0

\* C34: getUnreads and getSaved start with one id-list call and issue no
\* other.  When the list answered names no id they return the empty list
\* without a further call.  When it names n ids they request the items in
\* chunks: unless the transport fails, exactly ceil(n / BatchSize) item
\* calls are issued, and the operation returns when the items received
\* number n and fails with the count APIError when they do not.
C34_ListThenChunks ==
  /\ [][(pc = "idle" /\ op' \in ListedOps)
          => /\ pc' = "await"
             /\ req' = ListReq(IF op' = "unreads" THEN "unread_item_ids"
                                ELSE "saved_item_ids")
             /\ nCalls' = 1]_vars
  /\ [][(op \in ListedOps /\ req.kind # "list") => req'.kind # "list"]_vars
  /\ [][(op \in ListedOps /\ pc = "await" /\ req.kind = "list"
           /\ response # NoResp /\ response.kind # "error")
          => IF Listed(response) = 0
             THEN /\ pc' = "done"
                  /\ result' = <<>>
                  /\ nCalls' = 1
                  /\ req' = req
             ELSE /\ pc' = "await"
                  /\ req'.kind = "with_ids"
                  /\ Len(ids') = Listed(response)
                  /\ nCalls' = 2]_vars
  /\ [](op \in ListedOps /\ req.kind = "with_ids"
          => /\ nCalls <= 1 + Chunks(Len(ids))
             /\ pc = "done"
                  => /\ nCalls = 1 + Chunks(Len(ids))
                     /\ Len(result) = Len(ids)
             /\ pc = "failed"
                  => /\ err \in {"Error:HTTP", "APIError:Count"}
                     /\ err = "APIError:Count"
                          => /\ nCalls = 1 + Chunks(Len(ids))
                             /\ Len(allItems) # Len(ids))
  /\ [][(op \in ListedOps /\ pc = "await" /\ req.kind = "with_ids"
           /\ response # NoResp /\ response.kind # "error"
           /\ i + BatchSize >= Len(ids))
          => IF Len(allItems) + Len(Items(response)) = Len(ids)
             THEN pc' = "done"
             ELSE pc' = "failed" /\ err' = "APIError:Count"]_vars

\* getUnreads listed three ids, with a blank piece among the pieces of the
\* id string or not, requested them in two chunks and failed on the count.
C34_Witness ==
  /\ op = "unreads"
  /\ pc = "failed"
  /\ err = "APIError:Count"
  /\ Len(ids) = BatchSize + 1
  /\ nCalls = 3

----------------------------------------------------------------------------
(* The retry loop of FreshRSSAPI._call                                     *)

IsAPIError(e) == e \in {"APIError:Request", "APIError:Parse"}

\* The passes of while (true) a call has begun.
Attempts(me) ==
  me.attempt + (IF me.pc \in {"axios", "fetch", "returned"} THEN 1 ELSE 0)

\* C35 as stated: a _call of FreshRSSAPI issues at most two requests, the
\* first and one retry; when it fails the error thrown is an APIError; it
\* returns only a response with truthy auth, so that the check of
\* _check_auth never throws.
C35_Original ==
  legacy.version = "FreshRSSAPI" =>
    \A c \in LegacyCalls :
       LET me == legacy.call[c] IN
         /\ me.sent <= MaxRetries + 1
         /\ me.pc = "thrown" => IsAPIError(me.err)
         /\ me.pc = "returned" => me.answer = "ok"

\* C35 amended: a _call of FreshRSSAPI makes at most two passes of its
\* loop, the first and one retry.  A pass issues one request when axios
\* cannot be loaded, and up to two when it can: the axios request and,
\* after any failure of it, a falsy auth included, the fetch request.  So
\* a call issues at most four requests.  It fails only after the second
\* pass, always with an APIError, and returns only a response with truthy
\* auth, so that the check of _check_auth never throws.
C35_TwoPassesFourRequests ==
  legacy.version = "FreshRSSAPI" =>
    \A c \in LegacyCalls :
       LET me == legacy.call[c] IN
         /\ Attempts(me) <= MaxRetries + 1
         /\ me.sent <= 2 * Attempts(me)
         /\ ~legacy.axios => me.sent <= Attempts(me)
         /\ me.pc = "thrown"
              => IsAPIError(me.err) /\ me.attempt = MaxRetries + 1
         /\ me.pc = "returned" => me.answer = "ok"

\* The probe of a FreshRSSAPI client failed after four requests, each one
\* answered with falsy auth: two through axios, two through fetch.
C35_Witness ==
  /\ legacy.version = "FreshRSSAPI"
  /\ legacy.call["probe"].pc = "thrown"
  /\ legacy.call["probe"].answer = "denied"
  /\ legacy.call["probe"].sent = 4
  /\ legacy.call["probe"].err = "APIError:Request"

----------------------------------------------------------------------------
(* Construction of the earlier clients: the probe is not awaited           *)

\* host, username and password all have a value.
Complete(c) == ~(c.host = "" \/ c.username = "" \/ c.password = "")

\* The probe settled with a rejection.
ProbeFailed == legacy.call["probe"].pc = "thrown"

\* The constructor's outcome does not depend on the probe, a data call can
\* start whatever the probe's position, and no error of the probe reaches
\* the constructing code.
ProbeDetached ==
  /\ legacy.ctorErr \in {"none", "TypeError:InvalidURL"}
       \/ IsConfigurationError(legacy.ctorErr)
  /\ legacy.made => legacy.ctorErr = "none"
  /\ ProbeFailed => legacy.made
  /\ (legacy.made /\ legacy.call["data"].pc = "idle") => ENABLED get_feeds

====
